---- MODULE Spec2Model ----
(***************************************************************************)
(* Model of the Ares quantitative engine (backend/optimizer.py) and of the *)
(* /api/portfolio/optimize route (backend/main.py).                        *)
(*                                                                         *)
(* Numbers are exact: every real quantity is an integer in a stated unit   *)
(* (weights in 1e-5 or 1e-4, money in 1/MoneyDen dollars, returns in       *)
(* halves), so that rounding, cut-offs and compounding are computed, not   *)
(* assumed.  The external numerical capabilities (the QP solver, the price *)
(* download) are the environment: their outcomes are drawn with \E.        *)
(***************************************************************************)
EXTENDS Integers, Sequences, FiniteSets, TLC

VARIABLES
  \* optimize_portfolio
  opt_pc, opt_in, ef_weights, perf, opt_calls, opt_exc, opt_result,
  \* generate_portfolio / fetch_price_history / the optimize route
  gp_pc, request, raw, prices, gp_done, gp_exc, bundle, response,
  \* compute_efficient_frontier
  fr_pc, fr_in, fr_i, frontier,
  \* compute_contribution_to_risk / stress_test
  rk_pc, rk_in, rk_out,
  \* run_backtest
  bt_pc, bt_in, V, current_month, bt_i, port_cum, added, bt_out

optVars == <<opt_pc, opt_in, ef_weights, perf, opt_calls, opt_exc, opt_result>>
gpVars  == <<gp_pc, request, raw, prices, gp_done, gp_exc, bundle, response>>
frVars  == <<fr_pc, fr_in, fr_i, frontier>>
rkVars  == <<rk_pc, rk_in, rk_out>>
btVars  == <<bt_pc, bt_in, V, current_month, bt_i, port_cum, added, bt_out>>
vars    == <<optVars, gpVars, frVars, rkVars, btVars>>

None == "none"

(***************************************************************************)
(* Arithmetic helpers                                                      *)
(***************************************************************************)
RECURSIVE SeqSum(_)
SeqSum(s) == IF s = <<>> THEN 0 ELSE Head(s) + SeqSum(Tail(s))

Abs(x) == IF x < 0 THEN -x ELSE x

Max2(a, b) == IF a >= b THEN a ELSE b

\* n/d rounded to the nearest integer, ties to the even one (d > 0): what
\* Python's round() and numpy.round() do on an exactly representable value.
RoundHalfEven(n, d) ==
  LET q == n \div d
      r == n % d
  IN  IF 2 * r < d THEN q
      ELSE IF 2 * r > d THEN q + 1
      ELSE IF q % 2 = 0 THEN q ELSE q + 1

(***************************************************************************)
(* optimize_portfolio (optimizer.py 170-232)                               *)
(* Weights handed back by the solver are in units of 1e-5; the cleaned     *)
(* weights are in units of 1e-4 (rounding=4).  Returns, volatilities and   *)
(* Sharpe ratios are in units of 1e-7 before round(x, 6) and in units of   *)
(* 1e-6 after it.                                                          *)
(***************************************************************************)
NAssets == 3

RawUnit == 10^5
CleanUnit == 10^4

\* cutoff=0.01 in units of 1e-5
Cutoff == 1000

\* Weights the solver may give to all assets but the last, which takes the rest.
HeadGrid == {0, 333, 750, 999, 1000, 1004, 25000, 33333}

\* Long-only, fully invested solver outputs: each weight in [0,1], sum exactly 1.
RawWeights ==
  { [i \in 1..NAssets |-> IF i < NAssets THEN s[i] ELSE RawUnit - SeqSum(s)] :
      s \in { t \in [1..(NAssets - 1) -> HeadGrid] : SeqSum(t) <= RawUnit } }

\* What a solve can end in: a solution, pypfopt's OptimizationError (infeasible,
\* solver status not optimal), or any other exception the library raises
\* (ValueError when no asset beats the risk-free rate, cvxpy's SolverError).
SolveOutcomes == {"optimal", "OptimizationError", "ValueError", "SolverError"}

\* The except clause of optimize_portfolio: which failures of max_sharpe it handles.
Caught(outcome) == outcome = "OptimizationError"

\* EfficientFrontier.clean_weights(cutoff=0.01, rounding=4): every weight whose
\* absolute value is below the cutoff becomes 0, then each is rounded to 4 decimals.
clean_weights(w) ==
  [i \in DOMAIN w |-> RoundHalfEven(IF Abs(w[i]) < Cutoff THEN 0 ELSE w[i],
                                    RawUnit \div CleanUnit)]

\* RISK_FREE_RATE = 0.05, in units of 1e-7
RISK_FREE_RATE == 500000

\* risk_tolerance in tenths: the two ends of the range the request allows.
RiskTolerances == {0, 10}

\* Annualized volatilities sqrt(w' Sigma w) the covariance matrix can give the
\* solution, in units of 1e-7: on and just above each threshold, and above 1.
VolGrid == {1200000, 1200004, 2000000, 2000004, 10000004}

\* ef.portfolio_performance(risk_free_rate=RISK_FREE_RATE): the expected return,
\* the volatility and the Sharpe ratio (return - risk-free rate) / volatility of
\* the solution, here 0.25 in each market.
PerfGrid ==
  { [expected_return |-> RISK_FREE_RATE + v \div 4, volatility |-> v, sharpe |-> 2500000] :
      v \in VolGrid }

\* STRATEGY_BANDS, thresholds in units of 1e-7
STRATEGY_BANDS ==
  << [threshold |-> 1200000, label |-> "Conservative"],
     [threshold |-> 2000000, label |-> "Balanced"],
     [threshold |-> 10000000, label |-> "Aggressive"] >>

\* for threshold, label in STRATEGY_BANDS: if volatility <= threshold: return
\* label; return "Aggressive"
classify_strategy(volatility) ==
  LET hit == {i \in DOMAIN STRATEGY_BANDS : volatility <= STRATEGY_BANDS[i].threshold}
  IN  IF hit = {} THEN "Aggressive"
      ELSE STRATEGY_BANDS[CHOOSE i \in hit : \A j \in hit : i <= j].label

\* round(x, 6) of a value in units of 1e-7, in units of 1e-6
Round6Of7(x) == RoundHalfEven(x, 10)

\* A faulty variant: the label follows the user's stated risk tolerance.
OptimizeReturnSteered(weights, p, risk_tolerance) ==
  [ weights         |-> clean_weights(weights),
    expected_return |-> Round6Of7(p.expected_return),
    volatility      |-> Round6Of7(p.volatility),
    sharpe_ratio    |-> Round6Of7(p.sharpe),
    strategy        |-> IF risk_tolerance <= 3 THEN "Conservative"
                        ELSE IF risk_tolerance <= 6 THEN "Balanced"
                        ELSE "Aggressive" ]

\* Lines 216-232: the dict optimize_portfolio returns for the solver's weights
\* and the performance triple.  risk_tolerance is a parameter of the function
\* that its body never reads.
OptimizeReturn(weights, p, risk_tolerance) ==
  [ weights         |-> clean_weights(weights),
    expected_return |-> Round6Of7(p.expected_return),
    volatility      |-> Round6Of7(p.volatility),
    sharpe_ratio    |-> Round6Of7(p.sharpe),
    strategy        |-> classify_strategy(p.volatility) ]

OptIdle ==
  /\ opt_pc = "idle" /\ opt_in = None /\ ef_weights = None /\ perf = None
  /\ opt_calls = <<>> /\ opt_exc = None /\ opt_result = None

OptInit ==
  /\ opt_pc = "max_sharpe" /\ ef_weights = None /\ perf = None /\ opt_calls = <<>>
  /\ opt_exc = None /\ opt_result = None
  /\ opt_in \in [risk_tolerance : RiskTolerances]

\* try: ef.max_sharpe(risk_free_rate=RISK_FREE_RATE)
OptMaxSharpe ==
  /\ opt_pc = "max_sharpe"
  /\ \E outcome \in SolveOutcomes :
       /\ opt_calls' = Append(opt_calls, [call |-> "max_sharpe", outcome |-> outcome])
       /\ IF outcome = "optimal"
          THEN /\ \E w \in RawWeights : ef_weights' = w
               /\ opt_pc' = "clean" /\ opt_exc' = opt_exc
          ELSE IF Caught(outcome)
          THEN /\ opt_pc' = "except" /\ UNCHANGED <<ef_weights, opt_exc>>
          ELSE /\ opt_pc' = "raised" /\ opt_exc' = outcome /\ UNCHANGED ef_weights
  /\ UNCHANGED <<opt_in, perf, opt_result, gpVars, frVars, rkVars, btVars>>

\* except OptimizationError: logger.warning(...); ef = EfficientFrontier(...);
\* ef.min_volatility()
OptFallback ==
  /\ opt_pc = "except"
  /\ \E outcome \in SolveOutcomes :
       /\ opt_calls' = opt_calls \o << [call |-> "warning", outcome |-> "logged"],
                                       [call |-> "min_volatility", outcome |-> outcome] >>
       /\ IF outcome = "optimal"
          THEN /\ \E w \in RawWeights : ef_weights' = w
               /\ opt_pc' = "clean" /\ opt_exc' = opt_exc
          ELSE /\ opt_pc' = "raised" /\ opt_exc' = outcome /\ UNCHANGED ef_weights
  /\ UNCHANGED <<opt_in, perf, opt_result, gpVars, frVars, rkVars, btVars>>

\* cleaned_weights = ef.clean_weights(cutoff=0.01, rounding=4);
\* perf = ef.portfolio_performance(...); strategy = ...; return {...}
OptFinish ==
  /\ opt_pc = "clean"
  /\ \E p \in PerfGrid :
       /\ perf' = p
       /\ opt_result' = OptimizeReturn(ef_weights, p, opt_in.risk_tolerance)
  /\ opt_pc' = "done"
  /\ UNCHANGED <<opt_in, ef_weights, opt_calls, opt_exc, gpVars, frVars, rkVars, btVars>>

OptNext == OptMaxSharpe \/ OptFallback \/ OptFinish

(***************************************************************************)
(* fetch_price_history (optimizer.py 75-133), generate_portfolio           *)
(* (optimizer.py 504-571) and the optimize route (main.py 129-167)         *)
(* A raw price column is a sequence of cells, 0 for a missing observation  *)
(* (NaN) and a positive price otherwise.                                   *)
(***************************************************************************)
MaxRows == 3

\* The requests: at least two symbols (PortfolioRequest.tickers, min_length=2).
TickerLists == {{"AAA", "BBB"}, {"AAA", "BBB", "CCC"}}

Cells == {0, 1}

\* What yf.download can hand back: one Close column per requested ticker over a
\* common date index of 0..MaxRows rows, each row a day on which at least one
\* ticker has an observation.
RawFrames ==
  { f \in UNION { [tk -> [1..n -> Cells]] : tk \in TickerLists, n \in 0..MaxRows } :
      \A i \in DOMAIN f[CHOOSE c \in DOMAIN f : TRUE] : \E c \in DOMAIN f : f[c][i] # 0 }

NRows(frame) == LET c == CHOOSE c \in DOMAIN frame : TRUE IN Len(frame[c])

NonMissing(col) == Cardinality({i \in DOMAIN col : col[i] # 0})

\* threshold = 0.80 * len(prices); thresh=int(threshold)
Thresh(n) == (80 * n) \div 100

\* prices.dropna(axis=1, thresh=int(threshold)): the columns with at least
\* thresh non-missing cells.
DropnaCols(frame) ==
  {c \in DOMAIN frame : NonMissing(frame[c]) >= Thresh(NRows(frame))}

\* Series.ffill(): a missing cell takes the last observation before it.
ffill(col) ==
  [i \in DOMAIN col |->
     IF col[i] # 0 THEN col[i]
     ELSE LET before == {j \in 1..i : col[j] # 0}
          IN  IF before = {} THEN 0
              ELSE col[CHOOSE j \in before : \A k \in before : k <= j]]

\* Series.bfill(): a missing cell takes the next observation after it.
bfill(col) ==
  [i \in DOMAIN col |->
     IF col[i] # 0 THEN col[i]
     ELSE LET after == {j \in i..Len(col) : col[j] # 0}
          IN  IF after = {} THEN 0
              ELSE col[CHOOSE j \in after : \A k \in after : j <= k]]

\* prices.dropna(axis=1, thresh=...).ffill().bfill()
CleanPrices(frame) == [c \in DOMAIN frame |-> bfill(ffill(frame[c]))]

\* The stages of generate_portfolio after the fetch, in program order.
StageOrder ==
  << "estimate_parameters", "optimize_portfolio", "compute_efficient_frontier",
     "compute_var", "run_backtest", "compute_correlation_matrix",
     "compute_contribution_to_risk", "stress_test" >>

\* How a call into the numerical libraries can end.
StageOutcomes == {"ok", "ValueError", "Exception"}

\* A faulty variant: a failure of the stress test is swallowed and the pipeline
\* goes on to assemble the bundle.
StageRaisesUnlessStress(stage, outcome) == outcome # "ok" /\ stage # "stress_test"

\* generate_portfolio has no handler of its own: whatever a stage raises leaves it.
StageRaises(stage, outcome) == outcome # "ok"

\* The result of a completed stage, tagged with the stage that produced it.
StageValue(stage) == [by |-> stage]

\* The result of optimize_portfolio, as the pipeline holds it.
Produced(stage, value) == [by |-> stage, value |-> value]

\* The requests: PortfolioRequest's investment, risk_tolerance (in tenths) and
\* monthly_contribution.
Requests ==
  [investment : {100}, risk_tolerance : RiskTolerances, monthly_contribution : {0}]

\* What the solver can hand back for the valid tickers, in units of 1e-5: a
\* quarter of the capital in each ticker but one, which takes the rest.
SolvedWeights(tickers) ==
  { [c \in tickers |-> IF c = h THEN RawUnit - 25000 * (Cardinality(tickers) - 1)
                                ELSE 25000] : h \in tickers }

\* The dict generate_portfolio returns (optimizer.py 559-571).
MakeBundle(valid, req, opt) ==
  [ valid_tickers        |-> valid,
    optimization         |-> Produced("optimize_portfolio", opt),
    efficient_frontier   |-> StageValue("compute_efficient_frontier"),
    var                  |-> StageValue("compute_var"),
    backtest             |-> StageValue("run_backtest"),
    investment           |-> req.investment,
    risk_tolerance       |-> req.risk_tolerance,
    monthly_contribution |-> req.monthly_contribution,
    correlation_matrix   |-> StageValue("compute_correlation_matrix"),
    contribution_to_risk |-> StageValue("compute_contribution_to_risk"),
    stress_test          |-> StageValue("stress_test") ]

\* The route's except clauses: ValueError -> 422, anything else -> 500.
StatusOf(exc) == IF exc = "ValueError" THEN 422 ELSE 500

\* No bundle: a mapping with no field.
NoBundle == [f \in {} |-> None]

GpIdle ==
  /\ gp_pc = "idle" /\ request = None /\ raw = None /\ prices = None /\ gp_done = <<>>
  /\ gp_exc = None /\ bundle = NoBundle /\ response = None

GpInit ==
  /\ gp_pc = "fetch" /\ raw \in RawFrames /\ prices = None /\ gp_done = <<>>
  /\ gp_exc = None /\ bundle = NoBundle /\ response = None
  /\ request \in Requests

Call(stage, outcome) == [stage |-> stage, outcome |-> outcome]

\* prices = fetch_price_history(tickers, years=history_years)
GpFetch ==
  /\ gp_pc = "fetch"
  /\ IF NRows(raw) = 0
     THEN /\ gp_pc' = "raised" /\ gp_exc' = "ValueError"
          /\ gp_done' = <<Call("fetch_price_history", "ValueError")>>
          /\ UNCHANGED prices
     ELSE LET kept == DropnaCols(raw)
              cleaned == CleanPrices([c \in kept |-> raw[c]])
          IN  IF Cardinality(kept) < 2
              THEN /\ gp_pc' = "raised" /\ gp_exc' = "ValueError"
                   /\ gp_done' = <<Call("fetch_price_history", "ValueError")>>
                   /\ UNCHANGED prices
              ELSE /\ prices' = cleaned
                   /\ gp_done' = <<Call("fetch_price_history", "ok")>>
                   /\ gp_pc' = "stage" /\ gp_exc' = gp_exc
  /\ UNCHANGED <<request, raw, bundle, response, optVars, frVars, rkVars, btVars>>

\* One stage of generate_portfolio: the next call in program order.  The call
\* of optimize_portfolio(mu, sigma, risk_tolerance=risk_tolerance), when it
\* completes, leaves its result in opt_result.
GpStage ==
  /\ gp_pc = "stage"
  /\ Len(gp_done) <= Len(StageOrder)
  /\ LET stage == StageOrder[Len(gp_done)]
     IN  \E outcome \in StageOutcomes :
           /\ gp_done' = Append(gp_done, Call(stage, outcome))
           /\ IF StageRaises(stage, outcome)
              THEN gp_pc' = "raised" /\ gp_exc' = outcome
              ELSE UNCHANGED <<gp_pc, gp_exc>>
           /\ IF stage = "optimize_portfolio" /\ outcome = "ok"
              THEN \E w \in SolvedWeights(DOMAIN prices), p \in PerfGrid :
                     /\ opt_in' = [risk_tolerance |-> request.risk_tolerance]
                     /\ ef_weights' = w
                     /\ perf' = p
                     /\ opt_result' = OptimizeReturn(w, p, request.risk_tolerance)
              ELSE UNCHANGED <<opt_in, ef_weights, perf, opt_result>>
  /\ UNCHANGED <<request, raw, prices, bundle, response, opt_pc, opt_calls, opt_exc,
                 frVars, rkVars, btVars>>

\* return {...}
GpReturn ==
  /\ gp_pc = "stage"
  /\ Len(gp_done) = Len(StageOrder) + 1
  /\ bundle' = MakeBundle(DOMAIN prices, request, opt_result)
  /\ gp_pc' = "returned"
  /\ UNCHANGED <<request, raw, prices, gp_done, gp_exc, response, optVars, frVars, rkVars, btVars>>

\* The optimize route: {"success": True, "data": result}, or an HTTPException.
RouteRespond ==
  /\ gp_pc \in {"returned", "raised"}
  /\ response' = IF gp_pc = "returned"
                 THEN [status |-> 200, data |-> bundle]
                 ELSE [status |-> StatusOf(gp_exc), data |-> NoBundle]
  /\ gp_pc' = "responded"
  /\ UNCHANGED <<request, raw, prices, gp_done, gp_exc, bundle, optVars, frVars, rkVars, btVars>>

GpNext == GpFetch \/ GpStage \/ GpReturn \/ RouteRespond

(***************************************************************************)
(* compute_efficient_frontier (optimizer.py 247-279)                       *)
(* Expected returns are in percent.  A target is held in units of          *)
(* 1/(100*(n_points-1)) percent, in which linspace is exact.               *)
(***************************************************************************)
NPoints == 4

MuGrid == {-10, 5, 10, 11, 20}

SeqMin(s) == CHOOSE x \in {s[i] : i \in DOMAIN s} : \A i \in DOMAIN s : x <= s[i]

SeqMax(s) == CHOOSE x \in {s[i] : i \in DOMAIN s} : \A i \in DOMAIN s : x >= s[i]

TargetDen(n) == 100 * (n - 1)

\* The return of the global minimum-variance portfolio, which the covariance
\* matrix decides: somewhere between the smallest and the largest expected return.
MinVarReturns(mu, n) ==
  { TargetDen(n) * SeqMin(mu), TargetDen(n) * SeqMax(mu),
    (TargetDen(n) \div 2) * (SeqMin(mu) + SeqMax(mu)) }

FrontierInputs ==
  UNION { { [mu |-> m, n_points |-> NPoints, r_mv |-> r] : r \in MinVarReturns(m, NPoints) } :
            m \in [1..2 -> MuGrid] }

\* targets = np.linspace(float(mu.min()) * 1.05, float(mu.max()) * 0.95, n_points)
Target(mu, n, i) ==
  105 * SeqMin(mu) * (n - 1) + i * (95 * SeqMax(mu) - 105 * SeqMin(mu))

\* ef.efficient_return(target): minimum variance subject to return >= target.
\* No portfolio returns more than max(mu); otherwise the constraint binds unless
\* the unconstrained minimum-variance portfolio already meets the target.
Feasible(mu, n, target) == target <= TargetDen(n) * SeqMax(mu)

EfficientReturn(r_mv, target) == Max2(target, r_mv)

\* round(ret, 6), in units of 1e-6 (a percent is 1e-2)
Round6(ret, n) == RoundHalfEven(ret * 10^4, TargetDen(n))

FrIdle == fr_pc = "idle" /\ fr_in = None /\ fr_i = 0 /\ frontier = <<>>

FrInit ==
  /\ fr_pc = "loop" /\ fr_i = 0 /\ frontier = <<>>
  /\ fr_in \in FrontierInputs

\* One iteration of: for target in targets: try ... except Exception: continue
FrStep ==
  /\ fr_pc = "loop"
  /\ fr_i < fr_in.n_points
  /\ LET target == Target(fr_in.mu, fr_in.n_points, fr_i)
     IN  \E solved \in BOOLEAN :
           frontier' =
             IF solved /\ Feasible(fr_in.mu, fr_in.n_points, target)
             THEN Append(frontier,
                         [return |-> Round6(EfficientReturn(fr_in.r_mv, target),
                                            fr_in.n_points),
                          target |-> target])
             ELSE frontier
  /\ fr_i' = fr_i + 1
  /\ UNCHANGED <<fr_pc, fr_in, optVars, gpVars, rkVars, btVars>>

\* return frontier
FrReturn ==
  /\ fr_pc = "loop"
  /\ fr_i = fr_in.n_points
  /\ fr_pc' = "done"
  /\ UNCHANGED <<fr_in, fr_i, frontier, optVars, gpVars, rkVars, btVars>>

FrNext == FrStep \/ FrReturn

(***************************************************************************)
(* compute_contribution_to_risk (optimizer.py 308-324) and stress_test     *)
(* (optimizer.py 327-349)                                                  *)
(* Prices are 1 or 2, so a simple return is -1/2, 0 or 1: returns are held *)
(* in halves.  Weights are in tenths.  Contributions and the crash return  *)
(* are in units of 0.01 percent (round(c, 2)); money is in cents.          *)
(***************************************************************************)
RiskRows == 3

PriceSet == {1, 2}

PriceTickers == {"AAA", "BBB"}

\* Price histories of 3..RiskRows rows (the covariance of a single return row
\* is undefined).
PriceFrames == UNION { [PriceTickers -> [1..n -> PriceSet]] : n \in 3..RiskRows }

\* Weight mappings, in tenths: the optimizer's (one entry per priced ticker,
\* zeros included), and mappings that name fewer or other tickers.
WeightMaps ==
  { [AAA |-> 5, BBB |-> 5], [AAA |-> 3, BBB |-> 7], [AAA |-> 10, BBB |-> 0],
    [AAA |-> 10], [CCC |-> 10], [AAA |-> 2, BBB |-> 5, CCC |-> 3] }

\* prices.pct_change().dropna(): row t holds (p[t+1] - p[t]) / p[t], in halves.
PctChange(col) == [t \in 1..(Len(col) - 1) |-> (2 * (col[t + 1] - col[t])) \div col[t]]

RECURSIVE SetSum(_, _)
SetSum(f, S) ==
  IF S = {} THEN 0
  ELSE LET x == CHOOSE x \in S : TRUE IN f[x] + SetSum(f, S \ {x})

\* returns.cov() * TRADING_DAYS, times the positive factor 4*T*(T-1)/252 that
\* makes it an integer: T * sum(x*y) - sum(x) * sum(y) over the T return rows.
CovScaled(x, y) ==
  LET T == Len(x)
  IN  T * SeqSum([t \in 1..T |-> x[t] * y[t]]) - SeqSum(x) * SeqSum(y)

\* tickers = [t for t in returns.columns if t in weights]
HeldIn(frame, weights) == DOMAIN frame \cap DOMAIN weights

compute_contribution_to_risk(frame, weights) ==
  LET tickers == HeldIn(frame, weights)
      returns == [t \in tickers |-> PctChange(frame[t])]
      cov == [a \in tickers |-> [b \in tickers |-> CovScaled(returns[a], returns[b])]]
      marginal == [a \in tickers |->
                     SetSum([b \in tickers |-> cov[a][b] * weights[b]], tickers)]
      port_var == SetSum([a \in tickers |-> weights[a] * marginal[a]], tickers)
  IN  IF Cardinality(tickers) < 2
      THEN [t \in tickers |-> 10000]
      ELSE [t \in tickers |->
              IF port_var > 0
              THEN RoundHalfEven(weights[t] * marginal[t] * 10^4, port_var)
              \* port_vol = 1e-8: the numerator over 1e-16; the numerator is 0
              \* whenever the variance is, the covariance being positive
              \* semi-definite
              ELSE weights[t] * marginal[t] * 10^4]

RkIdle == rk_pc = "idle" /\ rk_in = None /\ rk_out = None

\* crash_pct = -0.20, in percent
CrashPct == -20

\* The investments handed to the stress test, in dollars.
StressInvestments == {100, 250}

\* stress_test(weights, prices, investment, crash_pct): the weights of the
\* tickers that have a price column are summed, and the sum is shocked.
stress_test(weights, frame, investment, crash_pct) ==
  LET tickers == HeldIn(frame, weights)
      \* np.sum(w_arr), in tenths
      w_sum == SetSum([t \in tickers |-> weights[t]], tickers)
      \* investment * (1 + port_return_crash), in thousandths of a dollar
      value_after == investment * (1000 + w_sum * crash_pct)
  IN  [ crash_scenario_pct     |-> crash_pct * 10,
        portfolio_return_crash |-> w_sum * crash_pct * 10,
        value_before           |-> investment * 100,
        value_after            |-> RoundHalfEven(value_after, 10),
        loss_usd               |-> RoundHalfEven(investment * 1000 - value_after, 10) ]

RkInit ==
  /\ rk_pc = "call" /\ rk_out = None
  /\ rk_in \in [prices : PriceFrames, weights : WeightMaps, investment : StressInvestments]

\* contribution_to_risk = compute_contribution_to_risk(prices, weights)
RkContribution ==
  /\ rk_pc = "call"
  /\ rk_out' = [contribution_to_risk |->
                  compute_contribution_to_risk(rk_in.prices, rk_in.weights)]
  /\ rk_pc' = "done"
  /\ UNCHANGED <<rk_in, optVars, gpVars, frVars, btVars>>

\* stress = stress_test(weights, prices, investment, crash_pct=-0.20)
RkStress ==
  /\ rk_pc = "call"
  /\ rk_out' = [stress_test |->
                  stress_test(rk_in.weights, rk_in.prices, rk_in.investment, CrashPct)]
  /\ rk_pc' = "stressed"
  /\ UNCHANGED <<rk_in, optVars, gpVars, frVars, btVars>>

RkNext == RkContribution \/ RkStress

(***************************************************************************)
(* run_backtest (optimizer.py 405-497)                                     *)
(* A date is its calendar month, counted from January of year 0 (the day   *)
(* of the month decides nothing in the code).  Weights and simple returns  *)
(* are in halves, so a day's growth factor 1 + w.r is in quarters; money   *)
(* is in 1/MoneyDen dollars, in which MaxDays-1 compounding steps are      *)
(* exact.                                                                  *)
(***************************************************************************)
MaxDays == 3

MoneyDen == 4^(MaxDays - 1)

\* Rows of the price matrix: the prices of AAA and BBB on one trading day.
PriceRows == {<<1, 1>>, <<2, 1>>, <<1, 2>>}

\* The month of the first trading day, and by how many calendar months the next
\* trading day is later than the day before it (12: the same month a year on).
StartMonths == {0, 11}

MonthGaps == {0, 1, 12}

\* Benchmark closes on the trading days: a price, or 0 where the download has none.
BenchCells == {0, 1, 2}

RECURSIVE DatesFrom(_, _)
DatesFrom(start, gaps) ==
  IF gaps = <<>> THEN <<start>>
  ELSE <<start>> \o DatesFrom(start + Head(gaps), Tail(gaps))

FrameOf(rows) ==
  [k \in PriceTickers |-> [t \in DOMAIN rows |-> rows[t][IF k = "AAA" THEN 1 ELSE 2]]]

\* A call of run_backtest: n trading days of prices, the benchmark's closes on
\* those days, the weights, the investment and the monthly contribution.
BacktestInput(start, gaps, rows, bench, weights, contribution, investment) ==
  [ dates |-> DatesFrom(start, gaps), prices |-> FrameOf(rows), bench |-> bench,
    weights |-> weights, investment |-> investment,
    monthly_contribution |-> contribution ]

\* Timestamp.month
MonthOf(date) == (date % 12) + 1

\* port_returns.index: the dates of the rows pct_change().dropna() keeps
ReturnDates(in) == [t \in 1..(Len(in.dates) - 1) |-> in.dates[t + 1]]

\* held_tickers = [t for t in weights if t in prices.columns]
held_tickers(in) == {k \in DOMAIN in.weights : k \in DOMAIN in.prices}

\* 1 + port_daily_returns[t], in quarters
PortFactor4(in, t) ==
  4 + SetSum([k \in held_tickers(in) |-> in.weights[k] * PctChange(in.prices[k])[t]],
             held_tickers(in))

Grow(value, factor4) == (value * factor4) \div 4

\* A faulty variant: the investment stays uninvested on the first return day.
RECURSIVE CumProdFromSecondDay(_, _)
CumProdFromSecondDay(in, t) ==
  IF t <= 1 THEN in.investment * MoneyDen
  ELSE Grow(CumProdFromSecondDay(in, t - 1), PortFactor4(in, t))

\* investment * np.cumprod(1 + port_daily_returns)
RECURSIVE CumProd(_, _)
CumProd(in, t) ==
  IF t = 0 THEN in.investment * MoneyDen
  ELSE Grow(CumProd(in, t - 1), PortFactor4(in, t))

\* bench_prices.reindex(port_returns.index).ffill().bfill()
BenchPrices(in) == bfill(ffill([t \in 1..(Len(in.dates) - 1) |-> in.bench[t + 1]]))

\* bench_prices.pct_change().fillna(0), in halves
BenchReturns(in) ==
  LET p == BenchPrices(in)
  IN  [t \in DOMAIN p |->
         IF t = 1 \/ p[t] = 0 THEN 0 ELSE (2 * (p[t] - p[t - 1])) \div p[t - 1]]

\* investment * np.cumprod(1 + bench_returns)
RECURSIVE BenchCum(_, _)
BenchCum(in, t) ==
  IF t = 0 THEN in.investment * MoneyDen
  ELSE (BenchCum(in, t - 1) * (2 + BenchReturns(in)[t])) \div 2

\* A faulty variant: the months are counted over the price dates, the first
\* trading day included.
NMonthsOfPrices(in) == Cardinality({in.dates[t] : t \in DOMAIN in.dates})

\* len(port_returns.index.to_period("M").unique())
NMonths(in) == Cardinality({ReturnDates(in)[t] : t \in DOMAIN ReturnDates(in)})

\* total_invested, in dollars
TotalInvested(in) ==
  IF in.monthly_contribution > 0
  THEN in.investment + in.monthly_contribution * Max2(0, NMonths(in) - 1)
  ELSE in.investment

\* peak = np.maximum.accumulate(port_cum)
Peak(cum, t) == SeqMax([s \in 1..t |-> cum[s]])

\* (port_cum - peak) / np.where(peak > 0, peak, 1), as round(d * 100, 2)
Drawdown(cum, t) ==
  LET pk == Peak(cum, t)
  IN  RoundHalfEven((cum[t] - pk) * 10^4, IF pk > 0 THEN pk ELSE MoneyDen)

\* round(v, 2), in cents
Cents(value) == RoundHalfEven(value * 100, MoneyDen)

\* round(n / d, 6) in units of 1e-6 (d > 0), the quotient taken three decimals
\* at a time.
RoundRatio6(n, d) ==
  LET q  == n \div d
      r  == n % d
      a  == (r * 1000) \div d
      r2 == (r * 1000) % d
  IN  q * 10^6 + a * 1000 + RoundHalfEven(r2 * 1000, d)

\* A float result: a number in units of 1e-6, or NaN (0.0 / 0.0 of numpy floats).
Float(value) == [nan |-> FALSE, value |-> value]

NaN == [nan |-> TRUE, value |-> 0]

\* round((port_cum[-1] / total_invested - 1), 6) if total_invested > 0 else 0
PortfolioTotalReturn(last, total) ==
  IF total > 0 THEN Float(RoundRatio6(last - total * MoneyDen, total * MoneyDen))
  ELSE Float(0)

\* round((bench_cum[-1] / investment - 1), 6): the division has no guard
BenchmarkTotalReturn(last, investment) ==
  IF investment # 0
  THEN Float(RoundRatio6(last - investment * MoneyDen, investment * MoneyDen))
  ELSE NaN

\* cagr(values, principal): 0.0 when guarded, otherwise the number
\* (num / den) ** (252 / days) - 1, kept as its three terms.
cagr(last, principal, days) ==
  IF principal <= 0
  THEN [guarded |-> TRUE, num |-> 0, den |-> 1, days |-> days]
  ELSE [guarded |-> FALSE, num |-> last, den |-> principal * MoneyDen, days |-> days]

BtIdle ==
  /\ bt_pc = "idle" /\ bt_in = None /\ V = 0 /\ current_month = 0 /\ bt_i = 0
  /\ port_cum = <<>> /\ added = <<>> /\ bt_out = None

BtInitOver(rowSet, gapSet, benchSet, weightSet, contribSet, investSet) ==
  /\ bt_pc = "start" /\ V = 0 /\ current_month = 0 /\ bt_i = 0
  /\ port_cum = <<>> /\ added = <<>> /\ bt_out = None
  /\ \E n \in 1..MaxDays :
       \E s \in StartMonths, g \in [1..(n - 1) -> gapSet], r \in [1..n -> rowSet],
          b \in [1..n -> benchSet], w \in weightSet, c \in contribSet,
          v \in investSet :
         bt_in = BacktestInput(s, g, r, b, w, c, v)

\* Lines 423-453: the returns, the benchmark, and the values without
\* contribution or the set-up of the day-stepping loop.
BtStart ==
  /\ bt_pc = "start"
  /\ LET n == Len(bt_in.dates) - 1
     IN  IF bt_in.monthly_contribution <= 0
         THEN /\ port_cum' = [t \in 1..n |-> CumProd(bt_in, t)]
              /\ bt_pc' = "summary"
              /\ UNCHANGED <<V, current_month>>
         ELSE IF n = 0
         \* port_returns.index[0] of an empty index: IndexError
         THEN /\ bt_pc' = "raised"
              /\ UNCHANGED <<V, current_month, port_cum>>
         ELSE /\ port_cum' = [t \in 1..n |-> 0]
              /\ V' = bt_in.investment * MoneyDen
              /\ current_month' = MonthOf(ReturnDates(bt_in)[1])
              /\ bt_pc' = "loop"
  /\ UNCHANGED <<bt_in, bt_i, added, bt_out, optVars, gpVars, frVars, rkVars>>

\* One iteration of the loop of lines 454-460 (bt_i is the 0-based index i).
BtLoop ==
  /\ bt_pc = "loop"
  /\ bt_i < Len(port_cum)
  /\ LET m == MonthOf(ReturnDates(bt_in)[bt_i + 1])
         add == bt_i > 0 /\ m # current_month
         Vc == IF add THEN V + bt_in.monthly_contribution * MoneyDen ELSE V
         Vn == Grow(Vc, PortFactor4(bt_in, bt_i + 1))
     IN  /\ V' = Vn
         /\ current_month' = m
         /\ port_cum' = [port_cum EXCEPT ![bt_i + 1] = Vn]
         /\ added' = Append(added, add)
  /\ bt_i' = bt_i + 1
  /\ UNCHANGED <<bt_pc, bt_in, bt_out, optVars, gpVars, frVars, rkVars>>

\* Lines 462-497: the benchmark leg, the total invested, the drawdown, the result.
BtSummary ==
  /\ \/ bt_pc = "summary"
     \/ bt_pc = "loop" /\ bt_i = Len(port_cum)
  /\ IF Len(port_cum) = 0
     \* np.min of an empty drawdown array: ValueError
     THEN bt_pc' = "raised" /\ UNCHANGED bt_out
     ELSE /\ bt_pc' = "done"
          /\ bt_out' =
               [ portfolio_values |-> [t \in DOMAIN port_cum |-> Cents(port_cum[t])],
                 benchmark_values |-> [t \in DOMAIN port_cum |-> Cents(BenchCum(bt_in, t))],
                 portfolio_total_return |->
                   PortfolioTotalReturn(port_cum[Len(port_cum)], TotalInvested(bt_in)),
                 benchmark_total_return |->
                   BenchmarkTotalReturn(BenchCum(bt_in, Len(port_cum)), bt_in.investment),
                 portfolio_cagr |->
                   cagr(port_cum[Len(port_cum)], TotalInvested(bt_in), Len(port_cum)),
                 benchmark_cagr |->
                   cagr(BenchCum(bt_in, Len(port_cum)), bt_in.investment, Len(port_cum)),
                 monthly_contribution |-> bt_in.monthly_contribution,
                 total_invested |-> 100 * TotalInvested(bt_in),
                 max_drawdown_pct |->
                   SeqMin([t \in DOMAIN port_cum |-> Drawdown(port_cum, t)]),
                 drawdown_values |-> [t \in DOMAIN port_cum |-> Drawdown(port_cum, t)] ]
  /\ UNCHANGED <<bt_in, V, current_month, bt_i, port_cum, added, optVars, gpVars, frVars, rkVars>>

BtNext == BtStart \/ BtLoop \/ BtSummary

\* Weights in halves: an even split, everything in one ticker, and a mapping
\* that also names a ticker without prices.
BacktestWeights == { [AAA |-> 1, BBB |-> 1], [AAA |-> 2, BBB |-> 0, CCC |-> 0] }

(***************************************************************************)
(* Specifications: one per entry point                                     *)
(***************************************************************************)
InitOpt == OptInit /\ GpIdle /\ FrIdle /\ RkIdle /\ BtIdle

SpecOpt == InitOpt /\ [][OptNext]_vars

Init == OptIdle /\ GpInit /\ FrIdle /\ RkIdle /\ BtIdle

Next == GpNext

Spec == Init /\ [][Next]_vars

InitFrontier == OptIdle /\ GpIdle /\ FrInit /\ RkIdle /\ BtIdle

SpecFrontier == InitFrontier /\ [][FrNext]_vars

InitRisk == OptIdle /\ GpIdle /\ FrIdle /\ RkInit /\ BtIdle

SpecRisk == InitRisk /\ [][RkNext]_vars

\* Calls that vary the calendar and the prices, against a flat benchmark.
InitBacktest ==
  /\ OptIdle /\ GpIdle /\ FrIdle /\ RkIdle
  /\ BtInitOver(PriceRows, MonthGaps, {1}, BacktestWeights, {0, 10}, {100})

SpecBacktest == InitBacktest /\ [][BtNext]_vars

\* Calls that vary the benchmark, within one calendar month or across months.
InitBenchmark ==
  /\ OptIdle /\ GpIdle /\ FrIdle /\ RkIdle
  /\ BtInitOver({<<1, 1>>, <<2, 1>>}, {0, 1}, BenchCells, {[AAA |-> 1, BBB |-> 1]},
                {0, 10}, {100})

SpecBenchmark == InitBenchmark /\ [][BtNext]_vars

\* Calls that vary the principal: nothing invested at the start, or 100 dollars.
InitPrincipal ==
  /\ OptIdle /\ GpIdle /\ FrIdle /\ RkIdle
  /\ BtInitOver({<<1, 1>>, <<2, 1>>}, {0, 1}, {1, 2}, {[AAA |-> 1, BBB |-> 1]},
                {0, 10}, {0, 100})

SpecPrincipal == InitPrincipal /\ [][BtNext]_vars

(***************************************************************************)
(* C1, C2                                                                  *)
(***************************************************************************)
PrimaryOutcome == opt_calls[1].outcome

CallNames == [i \in DOMAIN opt_calls |-> opt_calls[i].call]

\* C1: after post-processing, every returned weight is in [0,1] and the weights
\* sum to 1 within 1e-3, for every long-only fully-invested solver output.
C1_WeightsSumToOne ==
  opt_pc = "done" =>
    /\ \A i \in DOMAIN opt_result.weights :
         opt_result.weights[i] >= 0 /\ opt_result.weights[i] <= CleanUnit
    /\ Abs(SeqSum(opt_result.weights) - CleanUnit) * 1000 <= CleanUnit

\* C2: whenever the primary max-Sharpe solve fails, for any kind of failure, a
\* warning is logged, the minimum-variance problem is solved next, and the call
\* fails only with the failure of that fallback.
C2_FallbackOnAnyFailure ==
  (opt_pc \in {"done", "raised"} /\ PrimaryOutcome # "optimal") =>
    /\ Len(opt_calls) = 3
    /\ CallNames = <<"max_sharpe", "warning", "min_volatility">>
    /\ (opt_pc = "raised" => opt_exc = opt_calls[3].outcome)
    /\ (opt_pc = "done" => opt_calls[3].outcome = "optimal")

(***************************************************************************)
(* C3, C9                                                                  *)
(***************************************************************************)
BundleFields ==
  { "valid_tickers", "optimization", "efficient_frontier", "var", "backtest",
    "investment", "risk_tolerance", "monthly_contribution", "correlation_matrix",
    "contribution_to_risk", "stress_test" }

StageFields ==
  { "optimization", "efficient_frontier", "var", "backtest", "correlation_matrix",
    "contribution_to_risk", "stress_test" }

AllCallsOk ==
  [i \in 1..(Len(StageOrder) + 1) |->
     Call(IF i = 1 THEN "fetch_price_history" ELSE StageOrder[i - 1], "ok")]

SomeCallFailed == \E i \in DOMAIN gp_done : gp_done[i].outcome # "ok"

\* C3: generate_portfolio is all-or-nothing.  A failed stage means an error and
\* no bundle; a bundle has all eleven fields, each produced by a stage that
\* completed, the stages having run in program order.
C3_AllOrNothing ==
  /\ SomeCallFailed =>
       /\ DOMAIN bundle = {}
       /\ gp_pc \in {"raised", "responded"}
       /\ gp_pc = "responded" =>
            response.status \in {422, 500} /\ DOMAIN response.data = {}
  /\ DOMAIN bundle # {} =>
       /\ DOMAIN bundle = BundleFields
       /\ gp_done = AllCallsOk
       /\ bundle.valid_tickers = DOMAIN prices
       /\ \A f \in StageFields :
            \E i \in DOMAIN gp_done : gp_done[i] = Call(bundle[f].by, "ok")
  /\ (gp_pc = "responded" /\ response.status = 200) =>
       response.data = bundle /\ DOMAIN bundle = BundleFields

\* A stage in the middle of the pipeline failed after others had produced their
\* results, and the caller was answered with an error and no data.
C3_Witness ==
  /\ gp_pc = "responded"
  /\ Len(gp_done) = 6
  /\ gp_done[6] = Call("run_backtest", "Exception")
  /\ response.status = 500

MissingShare100(col) == 100 * (Len(col) - NonMissing(col))

WithinTwentyPct == {c \in DOMAIN raw : MissingShare100(raw[c]) <= 20 * Len(raw[c])}

\* C9: fetch_price_history keeps exactly the tickers with at most 20% missing
\* observations, returns a matrix without missing values, fails with a
\* ValueError (422) when fewer than 2 tickers survive, and estimate_parameters is
\* never reached with fewer than 2 tickers.
C9_TwentyPctFilter ==
  (gp_pc # "fetch" /\ NRows(raw) > 0) =>
    /\ gp_done[1].outcome = "ok" =>
         /\ DOMAIN prices = WithinTwentyPct
         /\ \A c \in DOMAIN prices : \A i \in DOMAIN prices[c] : prices[c][i] # 0
         /\ Cardinality(DOMAIN prices) >= 2
    /\ gp_done[1].outcome # "ok" <=> Cardinality(WithinTwentyPct) < 2
    /\ gp_done[1].outcome # "ok" =>
         /\ gp_exc = "ValueError"
         /\ Len(gp_done) = 1
         /\ gp_pc = "responded" => response.status = 422

(***************************************************************************)
(* C8                                                                      *)
(***************************************************************************)
\* C8: for every expected-return vector the returned frontier is in ascending
\* (non-decreasing) return order.
C8_FrontierAscending ==
  fr_pc = "done" =>
    \A i, j \in DOMAIN frontier : i < j => frontier[i].return <= frontier[j].return

(***************************************************************************)
(* C10                                                                     *)
(***************************************************************************)
RiskHeld == HeldIn(rk_in.prices, rk_in.weights)

\* C10: the contributions sum to 100 within 0.1 whenever at least 2 tickers are
\* held, for every weight mapping and price history; with fewer than 2 held each
\* held ticker gets exactly 100.
C10_ContributionsSumTo100 ==
  rk_pc = "done" =>
    /\ Cardinality(RiskHeld) >= 2 =>
         Abs(SetSum(rk_out.contribution_to_risk, RiskHeld) - 10000) <= 10
    /\ Cardinality(RiskHeld) < 2 =>
         \A t \in RiskHeld : rk_out.contribution_to_risk[t] = 10000

(***************************************************************************)
(* C4, C5, C6, C7                                                          *)
(***************************************************************************)
\* The value the day before return day t: the investment before the first.
ValueBefore(t) == IF t = 1 THEN bt_in.investment * MoneyDen ELSE port_cum[t - 1]

\* Return day t is the first trading day of a calendar month other than the
\* previous trading day's, and is not the first day of the simulated series.
NewCalendarMonth(t) == t > 1 /\ ReturnDates(bt_in)[t] # ReturnDates(bt_in)[t - 1]

\* C4: with a contribution c > 0, on the first trading day of a new calendar
\* month (other than the first day of the series) V(t) = (V(t-1) + c)(1 + w.r_t),
\* and on every other day V(t) = V(t-1)(1 + w.r_t).
C4_ContributionOnNewMonth ==
  (bt_pc \in {"loop", "done"} /\ bt_in.monthly_contribution > 0) =>
    \A t \in 1..bt_i :
      port_cum[t] =
        Grow(IF NewCalendarMonth(t)
             THEN ValueBefore(t) + bt_in.monthly_contribution * MoneyDen
             ELSE ValueBefore(t),
             PortFactor4(bt_in, t))

PriceMonths == Cardinality({bt_in.dates[t] : t \in DOMAIN bt_in.dates})

\* C5 as claimed: with c > 0, total_invested = investment + c * max(0, m - 1),
\* m the number of distinct calendar months of the price series given to the
\* backtest.
C5_MonthsOfPriceSeries ==
  (bt_pc = "done" /\ bt_in.monthly_contribution > 0) =>
    bt_out.total_invested =
      100 * (bt_in.investment + bt_in.monthly_contribution * Max2(0, PriceMonths - 1))

ReturnMonths ==
  Cardinality({bt_in.dates[t] : t \in 2..Len(bt_in.dates)})

\* C5 as amended: with c > 0, total_invested = investment + c * max(0, m - 1),
\* m the number of distinct calendar months among the dates of the daily
\* returns, which are the price dates without the first.
C5_MonthsOfReturnSeries ==
  (bt_pc = "done" /\ bt_in.monthly_contribution > 0) =>
    bt_out.total_invested =
      100 * (bt_in.investment + bt_in.monthly_contribution * Max2(0, ReturnMonths - 1))

\* A finished backtest with a contribution whose first price day is alone in
\* its calendar month, the returns spanning two further months.
C5_Witness ==
  /\ bt_pc = "done"
  /\ bt_in.monthly_contribution > 0
  /\ PriceMonths = 3
  /\ ReturnMonths = 2
  /\ bt_out.total_invested = 100 * (bt_in.investment + bt_in.monthly_contribution)

\* The running peak over days 0..t, the investment being the value of day 0.
PeakFromInvestment(t) == Max2(bt_in.investment * MoneyDen, Peak(port_cum, t))

\* C6: the drawdown of day t is (V(t) - P(t)) / P(t) with P(t) the maximum of
\* the value over days 0..t, V(0) = investment; no drawdown is positive and
\* max_drawdown is the least of them.
C6_DrawdownFromInvestment ==
  bt_pc = "done" =>
    /\ \A t \in DOMAIN port_cum :
         /\ bt_out.drawdown_values[t] =
              RoundHalfEven((port_cum[t] - PeakFromInvestment(t)) * 10^4,
                            PeakFromInvestment(t))
         /\ bt_out.drawdown_values[t] <= 0
    /\ \A t \in DOMAIN port_cum : bt_out.max_drawdown_pct <= bt_out.drawdown_values[t]
    /\ \E t \in DOMAIN port_cum : bt_out.max_drawdown_pct = bt_out.drawdown_values[t]

\* The benchmark's simple return on return day t, in halves: its close on that
\* day against its close on the trading day before.
BenchmarkReturnOn(t) == (2 * (bt_in.bench[t + 1] - bt_in.bench[t])) \div bt_in.bench[t]

RECURSIVE BenchmarkCompounded(_)
BenchmarkCompounded(t) ==
  IF t = 0 THEN bt_in.investment * MoneyDen
  ELSE (BenchmarkCompounded(t - 1) * (2 + BenchmarkReturnOn(t))) \div 2

\* C7: the benchmark leg compounds the benchmark's daily returns over exactly
\* the days of the portfolio leg, from the investment, without contributions:
\* benchmark_value(t) = investment * prod_{s<=t} (1 + b_s).
C7_BenchmarkSameDays ==
  (bt_pc = "done" /\ \A t \in DOMAIN bt_in.bench : bt_in.bench[t] # 0) =>
    \A t \in DOMAIN port_cum :
      bt_out.benchmark_values[t] = Cents(BenchmarkCompounded(t))

(***************************************************************************)
(* C11, C16                                                                *)
(***************************************************************************)
\* The label the spec's thresholds give a volatility in units of 1e-7.
LabelOf7(v) ==
  IF v <= 1200000 THEN "Conservative"
  ELSE IF v <= 2000000 THEN "Balanced"
  ELSE "Aggressive"

\* The bundle of the run that differs from this one in risk_tolerance only: the
\* same download, the same solution, the same stage results.
BundleUnder(rt) ==
  MakeBundle(DOMAIN prices, [request EXCEPT !.risk_tolerance = rt],
             OptimizeReturn(ef_weights, perf, rt))

\* C11: the strategy label is decided by the realized volatility alone
\* (<= 0.12 Conservative, <= 0.20 Balanced, above that Aggressive, above 1.00
\* included), and two runs of generate_portfolio that differ only in
\* risk_tolerance return bundles equal in every field but the echoed
\* risk_tolerance.
C11_LabelFromVolatilityOnly ==
  DOMAIN bundle # {} =>
    /\ bundle.optimization.value.strategy = LabelOf7(perf.volatility)
    /\ bundle.risk_tolerance = request.risk_tolerance
    /\ \A rt \in RiskTolerances :
         /\ DOMAIN BundleUnder(rt) = DOMAIN bundle
         /\ BundleUnder(rt).risk_tolerance = rt
         /\ \A f \in DOMAIN bundle \ {"risk_tolerance"} : BundleUnder(rt)[f] = bundle[f]

\* A bundle for a user who asked for the lowest risk tolerance whose portfolio
\* came out with a volatility above 1.00 and is labelled Aggressive.
C11_Witness ==
  /\ DOMAIN bundle # {}
  /\ request.risk_tolerance = 0
  /\ perf.volatility > 10000000
  /\ bundle.optimization.value.strategy = "Aggressive"

\* The label the spec's thresholds give a volatility in units of 1e-6.
LabelOf6(v) ==
  IF v <= 120000 THEN "Conservative"
  ELSE IF v <= 200000 THEN "Balanced"
  ELSE "Aggressive"

\* C16: the returned label is the one the thresholds give the returned,
\* 6-decimal-rounded volatility, for every volatility the solver can produce.
C16_LabelMatchesReportedVolatility ==
  opt_pc = "done" => opt_result.strategy = LabelOf6(opt_result.volatility)

(***************************************************************************)
(* C13                                                                     *)
(***************************************************************************)
\* The sum of all the weights of the mapping handed to the stress test, in tenths.
WeightTotal == SetSum(rk_in.weights, DOMAIN rk_in.weights)

\* C13: with weights that sum to 1 and crash_pct = -0.20 the stress test reports
\* portfolio_return_crash = -20.00, value_after = 0.8 * investment and
\* loss_usd = value_before - value_after = 0.2 * investment, for every price
\* history, one whose columns cover only some of the weighted tickers included.
C13_StressIsTheShock ==
  (rk_pc = "stressed" /\ WeightTotal = 10 /\ RiskHeld # {}) =>
    /\ rk_out.stress_test.portfolio_return_crash = -2000
    /\ rk_out.stress_test.value_after = 80 * rk_in.investment
    /\ rk_out.stress_test.loss_usd = 20 * rk_in.investment
    /\ rk_out.stress_test.loss_usd =
         rk_out.stress_test.value_before - rk_out.stress_test.value_after

(***************************************************************************)
(* C12, C14, C15                                                           *)
(***************************************************************************)
\* w . r_t in quarters: the weighted simple returns of return day t, over the
\* tickers that have both a weight and a price column.
WeightedReturn4(t) ==
  LET held == DOMAIN bt_in.weights \cap DOMAIN bt_in.prices
  IN  SetSum([k \in held |->
                bt_in.weights[k] *
                  ((2 * (bt_in.prices[k][t + 1] - bt_in.prices[k][t])) \div bt_in.prices[k][t])],
             held)

\* investment * prod_{s<=t} (1 + w . r_s), in 1/MoneyDen dollars
RECURSIVE PlainCompounding(_)
PlainCompounding(t) ==
  IF t = 0 THEN bt_in.investment * MoneyDen
  ELSE (PlainCompounding(t - 1) * (4 + WeightedReturn4(t))) \div 4

\* C12: without a monthly contribution the portfolio value reported for every
\* day t is investment * prod_{s<=t} (1 + w . r_s), to the cent, and
\* total_invested is the investment.
C12_PlainCompounding ==
  (bt_pc = "done" /\ bt_in.monthly_contribution = 0) =>
    /\ Len(bt_out.portfolio_values) = Len(bt_in.dates) - 1
    /\ \A t \in DOMAIN bt_out.portfolio_values :
         bt_out.portfolio_values[t] = Cents(PlainCompounding(t))
    /\ bt_out.total_invested = 100 * bt_in.investment

\* A backtest without contribution over two return days, across a month change,
\* that gained on the first day and lost on the second.
C12_Witness ==
  /\ bt_pc = "done"
  /\ bt_in.monthly_contribution = 0
  /\ Len(bt_out.portfolio_values) = 2
  /\ bt_in.dates[2] # bt_in.dates[3]
  /\ bt_out.portfolio_values[1] > 100 * bt_in.investment
  /\ bt_out.portfolio_values[2] < bt_out.portfolio_values[1]
  /\ bt_out.total_invested = 100 * bt_in.investment

\* C14: no division of run_backtest meets a zero denominator, whether the
\* investment, the running peak or total_invested is 0: the drawdowns, both
\* total returns and both CAGRs are numbers, and a CAGR is 0 whenever its
\* principal is <= 0.
C14_DivisionsGuarded ==
  bt_pc = "done" =>
    /\ ~bt_out.portfolio_total_return.nan
    /\ ~bt_out.benchmark_total_return.nan
    /\ bt_out.portfolio_cagr.guarded \/ bt_out.portfolio_cagr.den # 0
    /\ bt_out.benchmark_cagr.guarded \/ bt_out.benchmark_cagr.den # 0
    /\ bt_out.total_invested <= 0 => bt_out.portfolio_cagr.guarded
    /\ bt_in.investment <= 0 => bt_out.benchmark_cagr.guarded

\* The number of contributions the day-stepping loop added to V.
ContributionsAdded == Cardinality({i \in DOMAIN added : added[i]})

\* C15: with a contribution c > 0, total_invested is the investment plus c times
\* the number of contributions the loop added to V, for every ordered date index.
C15_TotalInvestedIsWhatWasAdded ==
  (bt_pc = "done" /\ bt_in.monthly_contribution > 0) =>
    bt_out.total_invested =
      100 * (bt_in.investment + bt_in.monthly_contribution * ContributionsAdded)

====
